---- MODULE Spec2Model ----
(***************************************************************************)
(* Model of the React client src/frontend/src/App.jsx: the component       *)
(* state, the handlers handleIngest and handleQuery (cut at their awaits), *)
(* and the newline-delimited stream decoding done inside handleQuery.      *)
(*                                                                         *)
(* Text is a sequence of tokens.  A wire record is                         *)
(*     "{" <type> <data token>* "}"                                        *)
(* standing for  {"type": <type>, "data": <data>} ; records are separated  *)
(* by the newline token.  The transport may cut the token stream anywhere. *)
(***************************************************************************)
EXTENDS Naturals, Sequences, FiniteSets

\* ------------------------------------------------------------------ bounds

\* The largest number of newline-terminated records in one response body.
MaxRecords == 2

\* ------------------------------------------------------------------ tokens

NL == "\n"
SP == " "
WhiteSpace == {SP, NL}
TypeTokens == {"chunk", "citations", "error", "other"}
DataTokens == {"h", "i"}

\* A message string (an Error's message, an alert text) as a one-token text.
Msg(s) == <<s>>

\* useState(null) for answer (line 7): distinct from every text.
NullAnswer == <<"null">>
\* useState(null) for selectedFile (line 5), and files[0] of an empty choice.
NoFile == "none"
Files == {"f1"}
\* Texts typed into the question box; useState('') (line 6) is the empty one.
Queries == {"q"}

SyntaxErrorMsg == Msg("SyntaxError: not valid JSON")
TypeErrorMsg == Msg("TypeError: cannot read properties of null")
NetworkErrorMsg == Msg("TypeError: Failed to fetch")
QueryFailedMsg == Msg("Query failed. Is the backend running?")
IngestFailedMsg == Msg("Ingestion failed. Is the backend running?")
ServerErrorMsg == Msg("server: unsupported file")
SuccessMsg == Msg("server: file ingested")
Undefined == Msg("undefined")
NoFileAlert == Msg("Please select a file first.")

\* ------------------------------------------------- the producer's records

Event(t, d) == [kind |-> "event", type |-> t, data |-> d]
Blank == [kind |-> "blank", type |-> "", data |-> <<>>]
Garbage == [kind |-> "garbage", type |-> "", data |-> <<>>]
NullRec == [kind |-> "null", type |-> "", data |-> <<>>]

\* What a response body may be made of: events of the three protocol types,
\* an object of another type, a blank line, the JSON literal null, and a line
\* that is not JSON.
RecordSet ==
    { Event("chunk", <<"h">>), Event("chunk", <<"i">>),
      Event("citations", <<"h", "i">>), Event("citations", <<"i">>),
      Event("error", <<"h">>), Event("other", <<>>),
      Blank, NullRec, Garbage }

\* One record on the wire, without its newline.
Encode(r) ==
    CASE r.kind = "event" -> <<"{", r.type>> \o r.data \o <<"}">>
      [] r.kind = "blank" -> <<SP>>
      [] r.kind = "null" -> <<"null">>
      [] OTHER -> <<"}">>

RECURSIVE Wire(_)
\* The body: every record followed by a newline.
Wire(rs) ==
    IF rs = <<>> THEN <<>>
    ELSE Encode(Head(rs)) \o <<NL>> \o Wire(Tail(rs))

RECURSIVE SeqsUpTo(_, _)
SeqsUpTo(S, n) ==
    IF n = 0 THEN {<<>>}
    ELSE LET shorter == SeqsUpTo(S, n - 1)
         IN shorter \cup {Append(s, x) : s \in {t \in shorter : Len(t) = n - 1}, x \in S}

Streams == SeqsUpTo(RecordSet, MaxRecords)

\* ------------------------------------------------------- the decoder (pure)

RECURSIVE SplitNL(_)
\* String.prototype.split('\n')
SplitNL(s) ==
    IF \A i \in 1..Len(s) : s[i] # NL THEN <<s>>
    ELSE LET i == CHOOSE k \in 1..Len(s) :
                      s[k] = NL /\ \A j \in 1..(k - 1) : s[j] # NL
         IN <<SubSeq(s, 1, i - 1)>> \o SplitNL(SubSeq(s, i + 1, Len(s)))

RECURSIVE TrimLeft(_)
TrimLeft(s) ==
    IF s # <<>> /\ Head(s) \in WhiteSpace THEN TrimLeft(Tail(s)) ELSE s

RECURSIVE TrimRight(_)
TrimRight(s) ==
    IF s # <<>> /\ s[Len(s)] \in WhiteSpace
    THEN TrimRight(SubSeq(s, 1, Len(s) - 1)) ELSE s

\* String.prototype.trim()
Trim(s) == TrimRight(TrimLeft(s))

KeepLine(line) == Trim(line) # <<>>

\* Only the first line of a piece kept.
LinesFirstOnly(chunk) ==
    LET ls == SelectSeq(SplitNL(chunk), KeepLine)
    IN IF ls = <<>> THEN <<>> ELSE <<Head(ls)>>

\* chunk.split('\n').filter(line => line.trim() !== '')
Lines(chunk) == SelectSeq(SplitNL(chunk), KeepLine)

\* JSON.parse(line): an object, the value null, or a SyntaxError.
JSONParse(line) ==
    LET t == Trim(line)
        n == Len(t)
    IN IF t = <<"null">> THEN [kind |-> "null", type |-> "", data |-> <<>>]
       ELSE IF /\ n >= 3
               /\ t[1] = "{"
               /\ t[n] = "}"
               /\ t[2] \in TypeTokens
               /\ \A i \in 3..(n - 1) : t[i] \in DataTokens
       THEN [kind |-> "object", type |-> t[2], data |-> SubSeq(t, 3, n - 1)]
       ELSE [kind |-> "syntaxError", type |-> "", data |-> <<>>]

\* ------------------------------------------------------------------- state

VARIABLES
    selectedFile,   \* useState(null)
    query,          \* useState('')
    answer,         \* useState(null)
    citations,      \* useState([])
    isLoading,      \* useState(false)
    error,          \* useState('')
    alert,          \* the text of the alert() raised by the last step, or <<>>
    ipc,            \* handleIngest: "idle", "fetch", "jsonErr", "jsonOk"
    qpc,            \* handleQuery: "idle", "fetch", "response", "read", "loop", "done"
    responseOk,     \* response.ok of the /query response
    stale,          \* history: the query in flight started over an earlier response
    sent,           \* the records of the response body of the current query
    pos,            \* how many tokens of the body reader.read() has delivered
    lines,          \* the lines of the current piece the for loop has yet to do
    applied,        \* history: the objects the for loop has handled, in order
    whole,          \* history: every piece so far ended at a record boundary
    qexit           \* history: how the current query ended, "" while it runs

vars == <<selectedFile, query, answer, citations, isLoading, error, alert,
          ipc, qpc, responseOk, stale, sent, pos, lines, applied, whole, qexit>>

uiVars == <<selectedFile, query, answer, citations, isLoading, error>>
streamVars == <<responseOk, stale, sent, pos, lines, applied, whole, qexit>>

Body == Wire(sent)

Init ==
    /\ selectedFile = NoFile
    /\ query = ""
    /\ answer = NullAnswer
    /\ citations = <<>>
    /\ isLoading = FALSE
    /\ error = <<>>
    /\ alert = <<>>
    /\ ipc = "idle"
    /\ qpc = "idle"
    /\ responseOk = TRUE
    /\ stale = FALSE
    /\ sent = <<>>
    /\ pos = 0
    /\ lines = <<>>
    /\ applied = <<>>
    /\ whole = TRUE
    /\ qexit = ""

\* JavaScript runs a handler to its next await before anything else runs: no
\* other step happens between the fetch resolving and the check of response.ok,
\* nor while the for loop over the lines of a piece is running.
Quiescent == qpc \notin {"response", "loop"}

\* ------------------------------------------------------------ user input

\* onChange of the text input (line 120)
SetQuery(q) ==
    /\ Quiescent
    /\ q # query
    /\ query' = q
    /\ alert' = <<>>
    /\ UNCHANGED <<selectedFile, answer, citations, isLoading, error, ipc, qpc>>
    /\ UNCHANGED streamVars

\* onChange of the file input (line 107): files[0], undefined when none chosen
SelectFile(f) ==
    /\ Quiescent
    /\ f # selectedFile
    /\ selectedFile' = f
    /\ alert' = <<>>
    /\ UNCHANGED <<query, answer, citations, isLoading, error, ipc, qpc>>
    /\ UNCHANGED streamVars

\* disabled={isLoading || !selectedFile}
IngestButtonEnabled == ~isLoading /\ selectedFile # NoFile

\* The query button enabled whatever isLoading is.
QueryButtonIgnoresLoading == query # ""

\* disabled={isLoading || !query}
QueryButtonEnabled == ~isLoading /\ query # ""

\* ------------------------------------------------------------------ render

\* {error && ...}
ShowsError == error # <<>>
\* {answer && ...}
ShowsAnswerCard == answer # NullAnswer /\ answer # <<>>
\* citations.map(...) inside the answer card
ShownSources == IF ShowsAnswerCard THEN citations ELSE <<>>

\* ----------------------------------------------------------- handleIngest

\* catch (err) { setError(err.message) } finally { setIsLoading(false) }
IngestCatch(msg) ==
    /\ error' = msg
    /\ isLoading' = FALSE
    /\ ipc' = "idle"
    /\ alert' = <<>>
    /\ UNCHANGED <<selectedFile, query, answer, citations, qpc>>
    /\ UNCHANGED streamVars

\* alert(data.message); setSelectedFile(null); finally { setIsLoading(false) }
IngestSucceed(message) ==
    /\ alert' = message
    /\ selectedFile' = NoFile
    /\ isLoading' = FALSE
    /\ ipc' = "idle"
    /\ UNCHANGED <<query, answer, citations, error, qpc>>
    /\ UNCHANGED streamVars

\* handleIngest called with no file selected (lines 15-18): the button is
\* disabled then, and the handler checks again: alert and return.
HandleIngestNoFile ==
    /\ Quiescent
    /\ selectedFile = NoFile
    /\ alert' = NoFileAlert
    /\ UNCHANGED uiVars
    /\ UNCHANGED <<ipc, qpc>>
    /\ UNCHANGED streamVars

\* The click with handleQuery's reset of the answer copied into handleIngest.
HandleIngestClearsAnswer ==
    /\ Quiescent
    /\ IngestButtonEnabled
    /\ isLoading' = TRUE
    /\ error' = <<>>
    /\ answer' = <<>>
    /\ ipc' = "fetch"
    /\ alert' = <<>>
    /\ UNCHANGED <<selectedFile, query, citations, qpc>>
    /\ UNCHANGED streamVars

\* The click on "Ingest File": the handler up to its first await.
HandleIngest ==
    /\ Quiescent
    /\ IngestButtonEnabled
    /\ isLoading' = TRUE
    /\ error' = <<>>
    /\ ipc' = "fetch"
    /\ alert' = <<>>
    /\ UNCHANGED <<selectedFile, query, answer, citations, qpc>>
    /\ UNCHANGED streamVars

\* await fetch(.../ingest) rejects.
IngestFetchThrows ==
    /\ Quiescent
    /\ ipc = "fetch"
    /\ IngestCatch(NetworkErrorMsg)

\* await fetch(.../ingest) resolves; the handler awaits response.json().
IngestResponse(ok) ==
    /\ Quiescent
    /\ ipc = "fetch"
    /\ ipc' = IF ok THEN "jsonOk" ELSE "jsonErr"
    /\ alert' = <<>>
    /\ UNCHANGED uiVars
    /\ UNCHANGED <<qpc>>
    /\ UNCHANGED streamVars

\* errData.error || 'Ingestion failed. Is the backend running?'
IngestErrorText(errDataError) ==
    IF errDataError # <<>> THEN errDataError ELSE IngestFailedMsg

\* The ok check left out: the error body handled as the success body.
IngestNotOkAsSuccess ==
    /\ Quiescent
    /\ ipc = "jsonErr"
    /\ IngestSucceed(Undefined)

\* !response.ok: response.json() resolves, the Error is thrown and caught.
IngestNotOk ==
    /\ Quiescent
    /\ ipc = "jsonErr"
    /\ \E e \in {<<>>, ServerErrorMsg} : IngestCatch(IngestErrorText(e))

\* response.ok: response.json() resolves with data.
IngestOk ==
    /\ Quiescent
    /\ ipc = "jsonOk"
    /\ \E m \in {SuccessMsg, Undefined} : IngestSucceed(m)

\* response.json() rejects (the body is not JSON), on either branch.
IngestJsonThrows ==
    /\ Quiescent
    /\ ipc \in {"jsonErr", "jsonOk"}
    /\ IngestCatch(SyntaxErrorMsg)

\* ------------------------------------------------------------ handleQuery

\* The token positions of the body that lie right after a record's newline.
Boundaries == {Len(Wire(SubSeq(sent, 1, k))) : k \in 0..Len(sent)}

\* The catch without its finally block: isLoading is left as it is.
QueryCatchNoFinally(msg, how) ==
    /\ error' = msg
    /\ qpc' = "done"
    /\ qexit' = how
    /\ lines' = <<>>
    /\ alert' = <<>>
    /\ stale' = FALSE
    /\ UNCHANGED <<selectedFile, query, answer, citations, isLoading, ipc>>
    /\ UNCHANGED <<responseOk, sent, pos, applied, whole>>

\* catch (err) { setError(err.message) } finally { setIsLoading(false) }
QueryCatch(msg, how) ==
    /\ error' = msg
    /\ isLoading' = FALSE
    /\ qpc' = "done"
    /\ qexit' = how
    /\ lines' = <<>>
    /\ alert' = <<>>
    /\ stale' = FALSE
    /\ UNCHANGED <<selectedFile, query, answer, citations, ipc>>
    /\ UNCHANGED <<responseOk, sent, pos, applied, whole>>

\* What an earlier query or ingestion has left on display.
ShowsSomething == ShowsError \/ ShowsAnswerCard \/ citations # <<>>

\* The click without the three resets: the old response is kept.
HandleQueryNoReset ==
    /\ Quiescent
    /\ QueryButtonEnabled
    /\ isLoading' = TRUE
    /\ qpc' = "fetch"
    /\ responseOk' = TRUE
    /\ stale' = ShowsSomething
    /\ sent' = <<>>
    /\ pos' = 0
    /\ lines' = <<>>
    /\ applied' = <<>>
    /\ whole' = TRUE
    /\ qexit' = ""
    /\ alert' = <<>>
    /\ UNCHANGED <<selectedFile, query, ipc, answer, citations, error>>

\* The click on "Get Answer": the handler up to its first await (lines 48-54).
HandleQuery ==
    /\ Quiescent
    /\ QueryButtonEnabled
    /\ isLoading' = TRUE
    /\ error' = <<>>
    /\ answer' = <<>>
    /\ citations' = <<>>
    /\ qpc' = "fetch"
    /\ responseOk' = TRUE
    /\ stale' = ShowsSomething
    /\ sent' = <<>>
    /\ pos' = 0
    /\ lines' = <<>>
    /\ applied' = <<>>
    /\ whole' = TRUE
    /\ qexit' = ""
    /\ alert' = <<>>
    /\ UNCHANGED <<selectedFile, query, ipc>>

\* await fetch(.../query) rejects.
QueryFetchThrows ==
    /\ qpc = "fetch"
    /\ QueryCatch(NetworkErrorMsg, "netThrow")

\* await fetch(.../query) resolves with a response: its ok flag and its body.
QueryFetchResolves ==
    /\ qpc = "fetch"
    /\ \E ok \in BOOLEAN, rs \in Streams :
          /\ responseOk' = ok
          /\ sent' = rs
    /\ qpc' = "response"
    /\ alert' = <<>>
    /\ UNCHANGED uiVars
    /\ UNCHANGED <<ipc, stale, pos, lines, applied, whole, qexit>>

\* The ok check left out: the body of the failed response is read as a stream.
QueryResponseNotOkIgnored ==
    /\ qpc = "response"
    /\ ~responseOk
    /\ qpc' = "read"
    /\ alert' = <<>>
    /\ UNCHANGED uiVars
    /\ UNCHANGED <<ipc>>
    /\ UNCHANGED streamVars

\* if (!response.ok) throw new Error('Query failed. Is the backend running?')
QueryResponseNotOk ==
    /\ qpc = "response"
    /\ ~responseOk
    /\ QueryCatch(QueryFailedMsg, "notOk")

\* response.ok: getReader(), new TextDecoder(), and the first reader.read().
QueryResponseOk ==
    /\ qpc = "response"
    /\ responseOk
    /\ qpc' = "read"
    /\ alert' = <<>>
    /\ UNCHANGED uiVars
    /\ UNCHANGED <<ipc>>
    /\ UNCHANGED streamVars

\* After the for loop over `rest`: the next reader.read(), or the next line.
AfterLine(rest) == IF rest = <<>> THEN "read" ELSE "loop"

\* reader.read() resolves with the next n tokens of the body, for any n the
\* transport chooses; the piece is decoded, split and filtered (lines 70-74).
ReaderRead ==
    /\ qpc = "read"
    /\ \E n \in 1..(Len(Body) - pos) :
          /\ LET chunk == SubSeq(Body, pos + 1, pos + n)
             IN /\ lines' = Lines(chunk)
                /\ qpc' = AfterLine(Lines(chunk))
          /\ pos' = pos + n
          /\ whole' = (whole /\ (pos + n) \in Boundaries)
    /\ alert' = <<>>
    /\ UNCHANGED uiVars
    /\ UNCHANGED <<ipc, responseOk, stale, sent, applied, qexit>>

\* reader.read() resolves with done: break, then finally.
ReaderDone ==
    /\ qpc = "read"
    /\ pos = Len(Body)
    /\ isLoading' = FALSE
    /\ qpc' = "done"
    /\ qexit' = "complete"
    /\ alert' = <<>>
    /\ UNCHANGED <<selectedFile, query, answer, citations, error, ipc>>
    /\ stale' = FALSE
    /\ UNCHANGED <<responseOk, sent, pos, lines, applied, whole>>

\* reader.read() rejects (the connection fails mid-stream).
ReaderRejects ==
    /\ qpc = "read"
    /\ QueryCatch(NetworkErrorMsg, "netThrow")

\* The new text put before the answer instead of after it.
AppendAnswerReordered(prev, data) == data \o prev

\* setAnswer(prev => prev + parsed.data)
AppendAnswer(prev, data) == prev \o data

\* The new citations merged into the list instead of replacing it.
MergeCitations(prev, data) == prev \o data

\* setCitations(parsed.data)
ReplaceCitations(prev, data) == data

\* One turn of the for loop whose line parses to an object: the state it sets.
ApplyObject(p) ==
    /\ answer' = IF p.type = "chunk" THEN AppendAnswer(answer, p.data) ELSE answer
    /\ citations' = IF p.type = "citations"
                    THEN ReplaceCitations(citations, p.data) ELSE citations
    /\ error' = IF p.type = "error" THEN p.data ELSE error
    /\ applied' = Append(applied, p)
    /\ lines' = Tail(lines)
    /\ qpc' = AfterLine(Tail(lines))
    /\ alert' = <<>>
    /\ UNCHANGED <<selectedFile, query, isLoading, ipc>>
    /\ UNCHANGED <<responseOk, stale, sent, pos, whole, qexit>>

\* One turn of the for loop (lines 76-88) on a line JSON.parse accepts.
ForLine ==
    /\ qpc = "loop"
    /\ JSONParse(Head(lines)).kind = "object"
    /\ ApplyObject(JSONParse(Head(lines)))

\* The SyntaxError swallowed inside the loop, which goes on with the next line.
ForLineParseSkips ==
    /\ qpc = "loop"
    /\ JSONParse(Head(lines)).kind = "syntaxError"
    /\ lines' = Tail(lines)
    /\ qpc' = AfterLine(Tail(lines))
    /\ alert' = <<>>
    /\ UNCHANGED uiVars
    /\ UNCHANGED <<ipc, responseOk, stale, sent, pos, applied, whole, qexit>>

\* JSON.parse(line) throws a SyntaxError.
ForLineParseThrows ==
    /\ qpc = "loop"
    /\ JSONParse(Head(lines)).kind = "syntaxError"
    /\ QueryCatch(SyntaxErrorMsg, "parseThrow")

\* JSON.parse(line) returns null and parsed.type throws a TypeError.
ForLineNullThrows ==
    /\ qpc = "loop"
    /\ JSONParse(Head(lines)).kind = "null"
    /\ QueryCatch(TypeErrorMsg, "parseThrow")

\* ----------------------------------------------------------- specification

Next ==
    \/ \E q \in Queries : SetQuery(q)
    \/ \E f \in Files \cup {NoFile} : SelectFile(f)
    \/ HandleIngestNoFile
    \/ HandleIngest
    \/ IngestFetchThrows
    \/ \E ok \in BOOLEAN : IngestResponse(ok)
    \/ IngestNotOk
    \/ IngestOk
    \/ IngestJsonThrows
    \/ HandleQuery
    \/ QueryFetchThrows
    \/ QueryFetchResolves
    \/ QueryResponseNotOk
    \/ QueryResponseOk
    \/ ReaderRead
    \/ ReaderDone
    \/ ReaderRejects
    \/ ForLine
    \/ ForLineParseThrows
    \/ ForLineNullThrows

Spec == Init /\ [][Next]_vars

\* The steps a started handleIngest takes: its network calls settling and the
\* code that follows each await.
IngestProgress ==
    \/ IngestFetchThrows
    \/ \E ok \in BOOLEAN : IngestResponse(ok)
    \/ IngestNotOk
    \/ IngestOk
    \/ IngestJsonThrows

\* The steps a started handleQuery takes: the fetch settling, each read of the
\* finite stream resolving, and the code that follows each await.
QueryProgress ==
    \/ QueryFetchThrows
    \/ QueryFetchResolves
    \/ QueryResponseNotOk
    \/ QueryResponseOk
    \/ ReaderRead
    \/ ReaderDone
    \/ ReaderRejects
    \/ ForLine
    \/ ForLineParseThrows
    \/ ForLineNullThrows

\* The network calls of a started handler complete and the event loop runs
\* the continuation of every settled await.
LiveSpec == Spec /\ WF_vars(IngestProgress) /\ WF_vars(QueryProgress)

\* ------------------------------------------------------ reference notions

\* The object JSON.parse yields for a well-formed event record.
ObjectOf(r) == [kind |-> "object", type |-> r.type, data |-> r.data]

RECURSIVE StreamEvents(_)
\* The events of a stream read record by record: blank lines carry none, and
\* reading ends at the first record that is not an object.
StreamEvents(rs) ==
    IF rs = <<>> THEN <<>>
    ELSE IF Head(rs).kind = "blank" THEN StreamEvents(Tail(rs))
    ELSE IF Head(rs).kind = "event" THEN <<ObjectOf(Head(rs))>> \o StreamEvents(Tail(rs))
    ELSE <<>>

\* The records delivered so far, when the delivery stands at a record boundary.
DeliveredRecords ==
    SubSeq(sent, 1, CHOOSE k \in 0..Len(sent) : Len(Wire(SubSeq(sent, 1, k))) = pos)

RECURSIVE ChunkConcat(_)
\* The data of the chunk events of a sequence of events, concatenated in order.
ChunkConcat(es) ==
    IF es = <<>> THEN <<>>
    ELSE (IF Head(es).type = "chunk" THEN Head(es).data ELSE <<>>) \o ChunkConcat(Tail(es))

RECURSIVE ParsedUntilThrow(_)
\* What the for loop will still handle of the lines left in the current piece.
ParsedUntilThrow(ls) ==
    IF ls = <<>> THEN <<>>
    ELSE IF JSONParse(Head(ls)).kind = "object"
         THEN <<JSONParse(Head(ls))>> \o ParsedUntilThrow(Tail(ls))
         ELSE <<>>

HasApplied(t) == \E i \in 1..Len(applied) : applied[i].type = t

\* ------------------------------------------------------------------ claims

\* C1: the events applied do not depend on how the transport cuts the body:
\* when a query ends (the stream is read to its end, or a record fails), the
\* events applied are those of the stream read record by record.
C1_SegmentationIndependent ==
    (qpc = "done" /\ qexit \in {"complete", "parseThrow"})
        => applied = StreamEvents(sent)

\* C2: an error event aborts the reading loop: while the loop is still
\* running (a read is pending or lines are left) no error event has been
\* applied, and no event is ever applied after an error event.
C2_ErrorAbortsLoop ==
    /\ qpc \in {"read", "loop"} => ~HasApplied("error")
    /\ \A i \in 1..Len(applied) : applied[i].type = "error" => i = Len(applied)

\* C3: with a delivery in whole records, after the first k events have been
\* processed the answer is the concatenation, in order, of the data of the
\* chunk events among the first k events of the stream.
C3_AnswerIsChunkConcat ==
    (whole /\ qpc # "idle") =>
        /\ Len(applied) <= Len(StreamEvents(sent))
        /\ answer = ChunkConcat(SubSeq(StreamEvents(sent), 1, Len(applied)))

C3_Witness ==
    /\ whole
    /\ Len(applied) = 2
    /\ applied[1].type = "chunk"
    /\ applied[2].type = "chunk"
    /\ answer = <<"h", "i">>

\* C4: right after a citations event is applied (and until the next event is),
\* citations is exactly that event's data, whatever it was before.
C4_CitationsReplaced ==
    (applied # <<>> /\ applied[Len(applied)].type = "citations")
        => citations = applied[Len(applied)].data

C4_Witness ==
    /\ Len(applied) = 2
    /\ applied[1].type = "citations"
    /\ applied[2].type = "citations"
    /\ applied[1].data # applied[2].data
    /\ citations = applied[2].data

\* C5: with a delivery in whole records, every record delivered is applied
\* once and in stream order: at each read (and at the end) the events applied
\* are exactly the events of the records delivered, and inside the for loop
\* the events applied followed by those the loop still has to do are.
C5_AppliedInOrderOnce ==
    (whole /\ qpc \in {"read", "loop", "done"}) =>
        applied \o ParsedUntilThrow(lines) = StreamEvents(DeliveredRecords)

C5_Witness ==
    /\ whole
    /\ qpc = "loop"
    /\ pos = Len(Body)
    /\ Len(applied) = 1
    /\ Len(lines) = 1
    /\ applied[1] # JSONParse(lines[1])
    /\ JSONParse(lines[1]).kind = "object"

\* C6: a query whose stream is the single error event ends with error equal
\* to the event's data, an empty answer, no citations, isLoading false, and
\* neither an answer nor a source displayed.
C6_SingleErrorFinalState ==
    [][(/\ qpc # "done"
        /\ qpc' = "done"
        /\ sent' = <<Event("error", <<"h">>)>>
        /\ qexit' \in {"complete", "parseThrow"})
       => (/\ error' = <<"h">>
           /\ answer' = <<>>
           /\ citations' = <<>>
           /\ isLoading' = FALSE
           /\ ~ShowsAnswerCard'
           /\ ShownSources' = <<>>)]_vars

\* C7: a failed ingestion is never shown as a success: a success alert is
\* raised and selectedFile cleared only by the step that got an ok response;
\* the step that ends a failed ingestion (fetch throws, or the response is not
\* ok) sets a non-empty error, keeps selectedFile and raises no alert.
C7_FailedIngestNotSuccess ==
    [][/\ (alert' \notin {<<>>, NoFileAlert}) => (ipc = "jsonOk" /\ ipc' = "idle")
       /\ (ipc # "idle" /\ ipc' = "idle" /\ selectedFile' # selectedFile)
              => ipc = "jsonOk"
       /\ (ipc \in {"fetch", "jsonErr"} /\ ipc' = "idle")
              => (/\ error' # <<>>
                  /\ selectedFile' = selectedFile
                  /\ alert' = <<>>
                  /\ isLoading' = FALSE)]_vars

C7_Witness ==
    /\ ipc = "idle"
    /\ error = ServerErrorMsg
    /\ selectedFile \in Files
    /\ alert = <<>>
    /\ ~isLoading

\* C8: once a citations event has been applied, no later record of the same
\* stream changes the answer or the citations.
C8_CitationsTerminal ==
    [][(HasApplied("citations") /\ qpc \in {"read", "loop"})
       => (answer' = answer /\ citations' = citations)]_vars

\* C9: a record that cannot be parsed, or a rejected read, ends the reading:
\* error is the exception's message, nothing more is applied, the answer and
\* the citations stay as they were and isLoading is false; and once the query
\* has ended nothing is read or applied until the next query starts.
C9_ThrowStopsReading ==
    [][/\ (qpc = "loop" /\ JSONParse(Head(lines)).kind # "object")
              => (/\ error' = (IF JSONParse(Head(lines)).kind = "null"
                               THEN TypeErrorMsg ELSE SyntaxErrorMsg)
                  /\ qpc' = "done"
                  /\ isLoading' = FALSE
                  /\ answer' = answer
                  /\ citations' = citations
                  /\ applied' = applied)
       /\ (qpc = "read" /\ qexit' = "netThrow")
              => (/\ error' = NetworkErrorMsg
                  /\ qpc' = "done"
                  /\ isLoading' = FALSE
                  /\ answer' = answer
                  /\ citations' = citations
                  /\ applied' = applied)
       /\ (qpc = "done" /\ qpc' # "fetch")
              => (/\ qpc' = "done"
                  /\ applied' = applied
                  /\ pos' = pos
                  /\ answer' = answer
                  /\ citations' = citations)]_vars

C9_Witness ==
    /\ qpc = "done"
    /\ qexit = "parseThrow"
    /\ error = SyntaxErrorMsg
    /\ answer = <<"h">>
    /\ pos < Len(Body)
    /\ ~isLoading

\* C10: when the /query response is not ok nothing is read from its body:
\* the step that finds it sets error to the fixed message and isLoading to
\* false, answer and citations are as reset, no piece is read and no event
\* applied, then or later in that query.
C10_NotOkReadsNothing ==
    [][/\ (qpc = "response" /\ ~responseOk)
              => (/\ error' = QueryFailedMsg
                  /\ isLoading' = FALSE
                  /\ qpc' = "done"
                  /\ answer' = <<>>
                  /\ citations' = <<>>
                  /\ pos' = 0
                  /\ applied' = <<>>)
       /\ (qexit = "notOk" /\ qpc' # "fetch")
              => (/\ pos' = 0
                  /\ applied' = <<>>
                  /\ answer' = <<>>
                  /\ citations' = <<>>)]_vars

C10_Witness ==
    /\ qpc = "done"
    /\ qexit = "notOk"
    /\ ~responseOk
    /\ Len(Body) > 0
    /\ pos = 0
    /\ error = QueryFailedMsg
    /\ answer = <<>>
    /\ citations = <<>>
    /\ ~isLoading

\* A handler that has passed its first await and not yet its finally block.
IngestInFlight == ipc # "idle"
QueryInFlight == qpc \in {"fetch", "response", "read", "loop"}

\* C11: at most one backend operation is in flight: while a handleIngest or a
\* handleQuery has not reached its finally block isLoading is true and both
\* buttons are disabled, so no other handler can start, and an ingestion and
\* a query are never in flight together.
C11_OneOperationInFlight ==
    /\ ~(IngestInFlight /\ QueryInFlight)
    /\ (IngestInFlight \/ QueryInFlight)
           => (isLoading /\ ~QueryButtonEnabled /\ ~IngestButtonEnabled)

C11_Witness ==
    /\ IngestInFlight
    /\ query # ""
    /\ selectedFile \in Files
    /\ ~QueryButtonEnabled
    /\ ~IngestButtonEnabled

\* C12: a started handleQuery or handleIngest whose network calls complete
\* sets isLoading back to false on every path: the loading state always ends.
C12_LoadingEnds == isLoading ~> ~isLoading

C12_Witness ==
    /\ ~isLoading
    /\ qpc = "done"
    /\ qexit = "complete"
    /\ applied # <<>>
    /\ ipc = "idle"

RECURSIVE LastData(_, _)
\* The data of the last event of type t in a sequence of events, else empty.
LastData(es, t) ==
    IF es = <<>> THEN <<>>
    ELSE IF es[Len(es)].type = t THEN es[Len(es)].data
    ELSE LastData(SubSeq(es, 1, Len(es) - 1), t)

\* What error may hold by the current query's own doing: the data of its last
\* error event, or the message of the failure that ended it.
OwnError ==
    CASE qexit = "parseThrow" -> {SyntaxErrorMsg, TypeErrorMsg}
      [] qexit = "netThrow" -> {NetworkErrorMsg}
      [] qexit = "notOk" -> {QueryFailedMsg}
      [] OTHER -> {LastData(applied, "error")}

\* C13: every query starts from a clean response: from its start on, answer
\* and citations hold only what the events of this query put there, and while
\* the query runs and when it ends error holds only this query's error event
\* data or its own failure message; nothing of an earlier query is left.
C13_OnlyLatestQueryShown ==
    [][(qpc' # "idle")
       => (/\ answer' = ChunkConcat(applied')
           /\ citations' = LastData(applied', "citations")
           /\ (QueryInFlight \/ QueryInFlight') => error' \in OwnError')]_vars

C13_Witness ==
    /\ stale
    /\ qpc = "read"
    /\ pos = Len(Body)
    /\ applied = <<ObjectOf(Event("chunk", <<"i">>))>>
    /\ answer = <<"i">>
    /\ citations = <<>>
    /\ error = <<>>

\* C15: handleIngest leaves the query response alone: none of its steps
\* changes answer, citations or query; called with no file selected it raises
\* its alert and issues no request, and changes neither isLoading nor error.
C15_IngestLeavesResponse ==
    [][/\ (ipc' # ipc \/ alert' # <<>>)
              => (answer' = answer /\ citations' = citations /\ query' = query)
       /\ (alert' = NoFileAlert)
              => (/\ ipc' = ipc
                  /\ isLoading' = isLoading
                  /\ error' = error
                  /\ selectedFile' = selectedFile)]_vars

C15_Witness ==
    /\ alert = NoFileAlert
    /\ ipc = "idle"
    /\ answer = <<"h">>
    /\ citations = <<"h", "i">>
    /\ error = ServerErrorMsg
    /\ ~isLoading

\* A well-formed stream that carries citations: chunk events, then one
\* citations event.
WellFormedStream(rs) ==
    /\ rs # <<>>
    /\ rs[Len(rs)].kind = "event"
    /\ rs[Len(rs)].type = "citations"
    /\ \A i \in 1..(Len(rs) - 1) : rs[i].kind = "event" /\ rs[i].type = "chunk"

\* C14: the citations of a well-formed stream are always displayed: once such
\* a stream, delivered in whole records, has been read to its end, the source
\* list rendered is the data of its citations event.
C14_CitationsDisplayed ==
    (qpc = "done" /\ qexit = "complete" /\ whole /\ WellFormedStream(sent))
        => ShownSources = sent[Len(sent)].data

====
